---- MODULE Spec2Model ----
(***************************************************************************)
(* Layout engine of FigureAgent (layout_figure.py): compute_layout and     *)
(* _assign_layers, run on one FigurePlan and one canvas size.              *)
(*                                                                         *)
(* Identifiers are strings; a string is modelled as the sequence of its    *)
(* character codes so that list.sort() is the lexicographic order Python   *)
(* computes.  Coordinates are floats in the code; every value that occurs  *)
(* is an integer as long as the canvas height is even, so the model draws  *)
(* even heights and uses integer arithmetic.                               *)
(***************************************************************************)
EXTENDS Integers, Sequences, FiniteSets, TLC

\* ---------------------------------------------------------------- bounds
MaxNodes == 3
MaxEdges == 3
MaxLevel == 4
MaxLoopEdges == 2
MaxQueue == 4

\* ------------------------------------------------------------- constants
DEFAULT_CANVAS_SIZE == <<800, 600>>
NODE_SPACING == <<200, 140>>
MARGIN == 60

\* ------------------------------------------------------------ input sets
\* "a", "ab", "b" as character codes
Ids == {<<97>>, <<97, 98>>, <<98>>}

\* canvas_size = None
NoCanvas == <<>>

Canvases == {NoCanvas, <<400, 200>>}

\* FigureEdge (label is not read by the layout engine)
FigureEdge == [source : Ids, target : Ids]

\* plan.nodes: identifiers are unique within a plan (types.py, FigureNode)
NodeSeqs == UNION {{s \in [1..n -> Ids] : \A i, j \in 1..n : s[i] = s[j] => i = j} : n \in 0..MaxNodes}

\* plan.edges
EdgeSeqs == UNION {[1..n -> FigureEdge] : n \in 0..MaxEdges}

VARIABLES nodes, edges, canvas_size, pc, incoming, outgoing, levels, queue, error, result

vars == <<nodes, edges, canvas_size, pc, incoming, outgoing, levels, queue, error, result>>

\* -------------------------------------------------------------- helpers
Range(s) == {s[i] : i \in 1..Len(s)}

NoResult == <<>>

EmptyMap == [i \in {} |-> 0]

\* str.__lt__: lexicographic comparison of two strings
RECURSIVE LexLess(_, _)
LexLess(s, t) ==
    IF t = <<>> THEN FALSE
    ELSE IF s = <<>> THEN TRUE
    ELSE IF Head(s) < Head(t) THEN TRUE
    ELSE IF Head(s) > Head(t) THEN FALSE
    ELSE LexLess(Tail(s), Tail(t))

\* mutant: the column sorted in descending order
RECURSIVE SortIds_Descending(_)
SortIds_Descending(S) ==
    IF S = {} THEN <<>>
    ELSE LET m == CHOOSE x \in S : \A y \in S \ {x} : LexLess(y, x)
         IN <<m>> \o SortIds_Descending(S \ {m})

\* column.sort(): the identifiers of S in ascending lexicographic order
RECURSIVE SortIds(_)
SortIds(S) ==
    IF S = {} THEN <<>>
    ELSE LET m == CHOOSE x \in S : \A y \in S \ {x} : LexLess(x, y)
         IN <<m>> \o SortIds(S \ {m})

\* sorted(columns): the level numbers of S in ascending order
RECURSIVE SortInts(_)
SortInts(S) ==
    IF S = {} THEN <<>>
    ELSE LET m == CHOOSE x \in S : \A y \in S : x <= y
         IN <<m>> \o SortInts(S \ {m})

Max(a, b) == IF a >= b THEN a ELSE b

\* the sources of the edges of es whose target is t, in edge order
RECURSIVE SourcesOf(_, _)
SourcesOf(es, t) ==
    IF es = <<>> THEN <<>>
    ELSE (IF Head(es).target = t THEN <<Head(es).source>> ELSE <<>>) \o SourcesOf(Tail(es), t)

\* the targets of the edges of es whose source is s, in edge order
RECURSIVE TargetsOf(_, _)
TargetsOf(es, s) ==
    IF es = <<>> THEN <<>>
    ELSE (IF Head(es).source = s THEN <<Head(es).target>> ELSE <<>>) \o TargetsOf(Tail(es), s)

\* incoming[edge.target].append(edge.source) over plan.edges
BuildIncoming(es) == [t \in {es[i].target : i \in 1..Len(es)} |-> SourcesOf(es, t)]

\* outgoing[edge.source].append(edge.target) over plan.edges
BuildOutgoing(es) == [s \in {es[i].source : i \in 1..Len(es)} |-> TargetsOf(es, s)]

\* mutant: seeding stops at the first node without incoming edges
RECURSIVE SeedQueue_FirstOnly(_, _)
SeedQueue_FirstOnly(ns, inc) ==
    IF ns = <<>> THEN <<>>
    ELSE IF Head(ns) \notin DOMAIN inc THEN <<Head(ns)>>
    ELSE SeedQueue_FirstOnly(Tail(ns), inc)

\* the identifiers of ns that are not keys of inc, in declaration order
RECURSIVE SeedQueue(_, _)
SeedQueue(ns, inc) ==
    IF ns = <<>> THEN <<>>
    ELSE (IF Head(ns) \notin DOMAIN inc THEN <<Head(ns)>> ELSE <<>>) \o SeedQueue(Tail(ns), inc)

\* the queue before the while loop: the seeds, or the first declared node
InitialQueue(ns, inc) ==
    IF SeedQueue(ns, inc) # <<>> THEN SeedQueue(ns, inc) ELSE <<ns[1]>>

\* dict assignment levels[k] = v
Put(lv, k, v) == [i \in DOMAIN lv \cup {k} |-> IF i = k THEN v ELSE lv[i]]

\* mutant: only a neighbor without a layer is assigned
Improves_FirstVisit(lv, neighbor, proposed) == neighbor \notin DOMAIN lv

\* mutant: the comparison is reversed, the smaller proposal wins
Improves_Smaller(lv, neighbor, proposed) == neighbor \notin DOMAIN lv \/ proposed < lv[neighbor]

\* the test of the relaxation: the neighbor is new or the proposal is larger
Improves(lv, neighbor, proposed) == neighbor \notin DOMAIN lv \/ proposed > lv[neighbor]

\* mutant: a neighbor whose layer is raised is not queued again
RECURSIVE RelaxNeighbors_NoRequeue(_, _, _)
RelaxNeighbors_NoRequeue(st, nbrs, current_level) ==
    IF nbrs = <<>> THEN st
    ELSE LET neighbor == Head(nbrs)
             proposed == current_level + 1
             nxt == IF Improves(st.levels, neighbor, proposed)
                    THEN [levels |-> Put(st.levels, neighbor, proposed),
                          queue |-> IF neighbor \in DOMAIN st.levels THEN st.queue
                                    ELSE Append(st.queue, neighbor)]
                    ELSE st
         IN RelaxNeighbors_NoRequeue(nxt, Tail(nbrs), current_level)

\* the for loop over outgoing[current]: st = [levels, queue]
RECURSIVE RelaxNeighbors(_, _, _)
RelaxNeighbors(st, nbrs, current_level) ==
    IF nbrs = <<>> THEN st
    ELSE LET neighbor == Head(nbrs)
             proposed == current_level + 1
             nxt == IF Improves(st.levels, neighbor, proposed)
                    THEN [levels |-> Put(st.levels, neighbor, proposed),
                          queue |-> Append(st.queue, neighbor)]
                    ELSE st
         IN RelaxNeighbors(nxt, Tail(nbrs), current_level)

\* one iteration of `while queue`: popleft, then the for loop
RelaxStep(lv, q, out) ==
    LET current == Head(q)
        current_level == lv[current]
        nbrs == IF current \in DOMAIN out THEN out[current] ELSE <<>>
    IN RelaxNeighbors([levels |-> lv, queue |-> Tail(q)], nbrs, current_level)

\* levels.setdefault(node.identifier, 0) over plan.nodes
FillLevels(lv, ns) == [i \in DOMAIN lv \cup Range(ns) |-> IF i \in DOMAIN lv THEN lv[i] ELSE 0]

\* the while loop run until the queue drains
RECURSIVE RelaxLoop(_, _, _)
RelaxLoop(lv, q, out) ==
    IF q = <<>> THEN lv
    ELSE RelaxLoop(RelaxStep(lv, q, out).levels, RelaxStep(lv, q, out).queue, out)

\* _assign_layers as a function of a non-empty plan on which the loop ends
AssignLayers(ns, es) ==
    FillLevels(RelaxLoop([i \in Range(InitialQueue(ns, BuildIncoming(es))) |-> 0],
                         InitialQueue(ns, BuildIncoming(es)),
                         BuildOutgoing(es)),
               ns)

\* the smallest layer assigned so far
LowestLevel(lv) == CHOOSE m \in {lv[i] : i \in DOMAIN lv} : \A i \in DOMAIN lv : m <= lv[i]

\* the same layers counted from the lowest one
Rebase(lv) == [i \in DOMAIN lv |-> lv[i] - LowestLevel(lv)]

\* ------------------------------------------------------------ placement
\* columns[level] after column.sort()
Column(lv, level) == SortIds({i \in DOMAIN lv : lv[i] = level})

\* sorted(columns)
SortedLevels(lv) == SortInts({lv[i] : i \in DOMAIN lv})

CanvasOf(cs) == IF cs = NoCanvas THEN DEFAULT_CANVAS_SIZE ELSE cs

\* y_offset of a column of k nodes on a canvas of the given height
YOffset(k, height) ==
    LET col_height == NODE_SPACING[2] * Max(1, k - 1)
    IN Max(MARGIN, (height - col_height) \div 2)

\* the PositionedNodes of one column
PlaceColumn(column, level_index, height) ==
    [r \in 1..Len(column) |->
        [identifier |-> column[r],
         x |-> MARGIN + level_index * NODE_SPACING[1],
         y |-> YOffset(Len(column), height) + (r - 1) * NODE_SPACING[2]]]

\* the nodes list built by the loop over enumerate(sorted_levels)
RECURSIVE PlaceColumns(_, _, _, _)
PlaceColumns(lv, sorted_levels, level_index, height) ==
    IF sorted_levels = <<>> THEN <<>>
    ELSE PlaceColumn(Column(lv, Head(sorted_levels)), level_index, height)
         \o PlaceColumns(lv, Tail(sorted_levels), level_index + 1, height)

\* ----------------------------------------------------------------- Init
Init ==
    /\ nodes \in NodeSeqs
    /\ edges \in EdgeSeqs
    /\ canvas_size \in Canvases
    /\ pc = "start"
    /\ incoming = EmptyMap
    /\ outgoing = EmptyMap
    /\ levels = EmptyMap
    /\ queue = <<>>
    /\ error = "none"
    /\ result = NoResult

\* -------------------------------------------------------------- actions
\* _assign_layers up to the while loop: adjacency, seeds, fallback seed
Enter ==
    /\ pc = "start"
    /\ incoming' = BuildIncoming(edges)
    /\ outgoing' = BuildOutgoing(edges)
    /\ IF SeedQueue(nodes, BuildIncoming(edges)) = <<>> /\ nodes = <<>>
       THEN \* plan.nodes[0] on an empty list
            /\ queue' = queue
            /\ levels' = levels
            /\ pc' = "raised"
            /\ error' = "IndexError"
       ELSE /\ queue' = InitialQueue(nodes, BuildIncoming(edges))
            /\ levels' = [i \in Range(InitialQueue(nodes, BuildIncoming(edges))) |-> 0]
            /\ pc' = "relax"
            /\ error' = error
    /\ UNCHANGED <<nodes, edges, canvas_size, result>>

\* One iteration of the while loop.  Python integers are unbounded; the model
\* keeps layers within 0..MaxLevel.  A plan mentions at most three
\* identifiers, so a layer above MaxLevel is only ever assigned while a cycle
\* is being climbed, on a run whose queue never drains.  The loop reads layers
\* only to compare levels[current] + 1 with levels[neighbor], so on such a run
\* the model keeps the layers relative to the lowest one (Rebase) whenever no
\* identifier is left at layer 0; where one is left at 0 the run is not
\* explored further.  The queue of such a run can grow without limit; the
\* model follows it up to MaxQueue entries (a run that ends never holds more
\* than the three seeds).
Relax ==
    /\ pc = "relax"
    /\ queue # <<>>
    /\ LET st == RelaxStep(levels, queue, outgoing)
       IN /\ Len(st.queue) <= MaxQueue
          /\ queue' = st.queue
          /\ IF \A i \in DOMAIN st.levels : st.levels[i] <= MaxLevel
             THEN levels' = st.levels
             ELSE /\ LowestLevel(st.levels) > 0
                  /\ levels' = Rebase(st.levels)
    /\ UNCHANGED <<nodes, edges, canvas_size, pc, incoming, outgoing, error, result>>

\* the queue has drained: setdefault for the unreached nodes, return levels
Fill ==
    /\ pc = "relax"
    /\ queue = <<>>
    /\ levels' = FillLevels(levels, nodes)
    /\ pc' = "place"
    /\ UNCHANGED <<nodes, edges, canvas_size, incoming, outgoing, queue, error, result>>

\* compute_layout after _assign_layers: columns, coordinates, LayoutResult
Place ==
    /\ pc = "place"
    /\ IF DOMAIN levels \subseteq Range(nodes)
       THEN /\ result' = [width |-> CanvasOf(canvas_size)[1],
                          height |-> CanvasOf(canvas_size)[2],
                          nodes |-> PlaceColumns(levels, SortedLevels(levels), 0, CanvasOf(canvas_size)[2]),
                          edges |-> edges]
            /\ pc' = "returned"
            /\ error' = error
       ELSE \* node_lookup[node_id] for an identifier that is not a node
            /\ result' = result
            /\ pc' = "raised"
            /\ error' = "KeyError"
    /\ UNCHANGED <<nodes, edges, canvas_size, incoming, outgoing, levels, queue>>

Next == Enter \/ Relax \/ Fill \/ Place

Spec == Init /\ [][Next]_vars

\* The relaxation loop on its own terms: plans with at least one node (the
\* loop is not entered otherwise) and up to MaxLoopEdges edges, default
\* canvas.  The call is sequential and keeps running while a step is left.
LoopInit ==
    /\ Init
    /\ nodes # <<>>
    /\ Len(edges) <= MaxLoopEdges
    /\ canvas_size = NoCanvas

LoopSpec == LoopInit /\ [][Next]_vars /\ WF_vars(Next)

\* ------------------------------------------------- graph notions of a plan
\* the identifiers one edge away from i
Succ(i) == {edges[k].target : k \in {j \in 1..Len(edges) : edges[j].source = i}}

\* the identifiers reachable from S along zero or more edges
RECURSIVE ReachFrom(_)
ReachFrom(S) ==
    IF S \cup UNION {Succ(i) : i \in S} = S THEN S
    ELSE ReachFrom(S \cup UNION {Succ(i) : i \in S})

\* i lies on a directed cycle of the edge list
OnCycle(i) == i \in ReachFrom(Succ(i))

HasCycle == \E i \in Ids : OnCycle(i)

Acyclic == ~HasCycle

\* every edge endpoint is a declared node
ValidEdges == \A k \in 1..Len(edges) : edges[k].source \in Range(nodes) /\ edges[k].target \in Range(nodes)

\* a cycle can be reached from the identifiers queued before the loop
CycleReachable ==
    /\ nodes # <<>>
    /\ \E i \in ReachFrom(Range(InitialQueue(nodes, BuildIncoming(edges)))) : OnCycle(i)

\* _assign_layers has returned its mapping
LayersReturned == pc \in {"place", "returned"} \/ (pc = "raised" /\ error = "KeyError")

\* the number of edges on the longest path that ends at n (acyclic plans)
RECURSIVE LongestPathTo(_)
LongestPathTo(n) ==
    LET preds == {edges[k].source : k \in {j \in 1..Len(edges) : edges[j].target = n}}
    IN IF preds = {} THEN 0
       ELSE 1 + (CHOOSE m \in {LongestPathTo(p) : p \in preds} :
                    \A o \in {LongestPathTo(p) : p \in preds} : o <= m)

\* the PositionedNode of identifier i in the returned result
Positioned(i) == CHOOSE p \in Range(result.nodes) : p.identifier = i

\* the identifiers that share the layer of i
LayerOf(i) == {j \in DOMAIN levels : levels[j] = levels[i]}

\* position of i in the lexicographic order of its layer
Rank(i) == Cardinality({j \in LayerOf(i) : LexLess(j, i)})

\* all reorderings of a sequence
Reorderings(s) == {[k \in 1..Len(s) |-> s[p[k]]] : p \in Permutations(1..Len(s))}

\* ------------------------------------------------------------------ claims
\* C1: every plan whose edges contain a cycle makes _assign_layers terminate
\* and return a layer >= 0 for every node of the plan.
C1_CyclicPlansTerminate ==
    HasCycle => <>(LayersReturned /\ \A n \in Range(nodes) : n \in DOMAIN levels /\ levels[n] >= 0)

\* C2: compute_layout on the empty plan raises nothing and returns an empty
\* LayoutResult carrying the requested canvas size, or 800x600 by default.
C2_EmptyPlanReturnsEmptyLayout ==
    (nodes = <<>> /\ edges = <<>> /\ pc # "start") =>
        /\ pc = "returned"
        /\ result.nodes = <<>>
        /\ result.edges = <<>>
        /\ <<result.width, result.height>> = (IF canvas_size = NoCanvas THEN <<800, 600>> ELSE canvas_size)

\* C3: a plan with an edge endpoint that is not a node ends in an explicit
\* rejection naming it: never a returned LayoutResult, never a lookup error.
C3_DanglingEdgeRejected ==
    (~ValidEdges /\ pc \in {"returned", "raised"}) =>
        (pc = "raised" /\ error = "UnknownNodeReference")

\* C4: on an acyclic plan with valid edges every edge s -> t of the returned
\* layout has layer(t) >= layer(s) + 1 and x(t) > x(s).
C4_EdgesPointRight ==
    (pc = "returned" /\ Acyclic /\ ValidEdges) =>
        \A k \in 1..Len(edges) :
            /\ levels[edges[k].target] >= levels[edges[k].source] + 1
            /\ Positioned(edges[k].target).x > Positioned(edges[k].source).x

C4_Witness ==
    /\ pc = "returned" /\ Acyclic /\ ValidEdges
    /\ \E k \in 1..Len(edges) : levels[edges[k].target] >= levels[edges[k].source] + 2

\* C5: the only node of a single-node layer is placed at y = canvasHeight / 2
\* whenever canvasHeight / 2 >= margin.
C5_SingleNodeCentered ==
    pc = "returned" =>
        \A i \in DOMAIN levels :
            (LayerOf(i) = {i} /\ result.height \div 2 >= MARGIN) =>
                Positioned(i).y = result.height \div 2

\* C6: two nodes of one layer share x, and their y differ by exactly 140 times
\* the difference of their ranks in the lexicographic order of the layer.
C6_SameLayerSpacing ==
    pc = "returned" =>
        \A i, j \in DOMAIN levels :
            levels[i] = levels[j] =>
                /\ Positioned(i).x = Positioned(j).x
                /\ Positioned(j).y - Positioned(i).y = 140 * (Rank(j) - Rank(i))
                /\ (i # j => Positioned(i).y # Positioned(j).y)

C6_Witness ==
    /\ pc = "returned"
    /\ \E a, b \in 1..Len(nodes) :
          a < b /\ levels[nodes[a]] = levels[nodes[b]] /\ LexLess(nodes[b], nodes[a])

\* C7: every PositionedNode of a returned layout lies inside the canvas.
C7_NodesInsideCanvas ==
    pc = "returned" =>
        \A r \in 1..Len(result.nodes) :
            /\ 0 <= result.nodes[r].x /\ result.nodes[r].x <= result.width
            /\ 0 <= result.nodes[r].y /\ result.nodes[r].y <= result.height

\* C8: on an acyclic plan with valid edges the layers do not depend on the
\* order of the edge sequence nor on the order of the node sequence.
C8_OrderIndependent ==
    (pc = "place" /\ Acyclic /\ ValidEdges) =>
        \A ns \in Reorderings(nodes) : \A es \in Reorderings(edges) :
            AssignLayers(ns, es) = levels

C8_Witness ==
    /\ pc = "place" /\ Acyclic /\ ValidEdges
    /\ Len(nodes) = 3 /\ Len(edges) >= 2
    /\ Cardinality(Range(edges)) >= 2

\* C9: on an acyclic plan with valid edges the layer of a node is the number
\* of edges on the longest directed path that ends at it.
C9_LongestPathLayer ==
    (LayersReturned /\ Acyclic /\ ValidEdges) =>
        \A n \in Range(nodes) : levels[n] = LongestPathTo(n)

C9_Witness ==
    /\ LayersReturned /\ Acyclic /\ ValidEdges
    /\ \E k, l \in 1..Len(edges) :
          /\ edges[k].target = edges[l].target
          /\ LongestPathTo(edges[k].source) < LongestPathTo(edges[l].source)
          /\ k < l

\* C10: on a non-empty plan the relaxation loop terminates exactly when no
\* cycle is reachable from the initially queued identifiers, and then every
\* declared node on a cycle has layer 0.
C10_TerminatesIffNoReachableCycle ==
    /\ [](CycleReachable => ~LayersReturned)
    /\ (nodes # <<>> /\ ~CycleReachable) ~>
          (LayersReturned /\ \A n \in Range(nodes) : OnCycle(n) => levels[n] = 0)

C10_Witness ==
    /\ pc = "place" /\ ~CycleReachable
    /\ \E n \in Range(nodes) : OnCycle(n) /\ levels[n] = 0
====
